---- MODULE Spec2Model ----
(***************************************************************************)
(* SamplerControlSet of amethyst_animation (resources.rs): the per-channel *)
(* sampler controls of one animated component and the broadcast            *)
(* operations on them (set_channel, abort, pause, unpause,                 *)
(* set_rate_multiplier, set_input, check_termination, step).               *)
(*                                                                         *)
(* Time.  A Duration is a natural number of duration ticks.  An f32 number *)
(* of seconds is an integer number of half ticks, so that seconds are      *)
(* finer than durations and may be negative: secs_to_duration truncates    *)
(* and saturates at zero, duration_to_secs is exact.                       *)
(***************************************************************************)
EXTENDS Integers, Sequences, FiniteSets, TLC

\* ---------------------------------------------------------------- bounds
\* Largest elapsed Duration of a control handed to set_channel.
MaxDur == 2
\* Largest number of seconds (in half ticks) of a keyframe or a seek.
MaxSecs == 3
\* Largest number of keyframes of a sampler.
MaxKeys == 3
\* Largest rate multiplier.
MaxRate == 2

\* ---------------------------------------------------------------- types
\* T::Channel: two channels of one component.
Channels == {"c1", "c2"}
\* Handle<Sampler<T::Primitive>>: two sampler assets.
Handles == {"h1", "h2"}
\* Duration values of controls given to set_channel.
Durations == 0..MaxDur
\* f32 seconds, in half ticks; one negative value.
Secs == (0 - 1)..MaxSecs
\* f32 rate multipliers.
Rates == 1..MaxRate

\* enum ControlState
Requested == <<"Requested">>
Running(dur) == <<"Running", dur>>
Paused(dur) == <<"Paused", dur>>
Abort == <<"Abort">>
Done == <<"Done">>
ControlState == {Requested, Abort, Done} \cup {Running(d) : d \in Durations}
                    \cup {Paused(d) : d \in Durations}

\* ControlState::is_running
is_running(state) == state[1] = "Running"
\* ControlState::is_paused
is_paused(state) == state[1] = "Paused"

\* enum StepDirection
StepDirection == {"Forward", "Backward"}

\* enum EndControl (Loop(None) and Normal)
EndControl == {"Normal", "Loop"}

\* Option<usize>
None == << >>
Some(index) == <<index>>

\* struct Sampler, as the asset store holds it: present or not yet loaded.
Sampler(input) == [present |-> TRUE, input |-> input]
NotLoaded == [present |-> FALSE, input |-> << >>]

\* Non-decreasing keyframe times of at most MaxKeys keyframes.
KeySeqs == UNION {{s \in [1..n -> Secs] : \A i \in 1..n : \A j \in 1..n : i <= j => s[i] <= s[j]} : n \in 0..MaxKeys}

\* struct SamplerControl.  The (channel, sampler) pairs are the nodes of one
\* Animation: channel c1 is driven by sampler h1, channel c2 by sampler h2;
\* end and after differ between the two so that a change of either shows.
SamplerControl == {[channel |-> n[1], sampler |-> n[2], state |-> st, end |-> n[3], after |-> n[4], rate_multiplier |-> r] : n \in {<<"c1", "h1", "Normal", 0>>, <<"c2", "h2", "Loop", 1>>}, st \in ControlState, r \in Rates}

\* ---------------------------------------------------------------- state
VARIABLES samplers, store, panicked, op, before

vars == <<samplers, store, panicked, op, before>>

\* SamplerControlSet::default(): no channel has a control.
EmptySet == [c \in {} |-> Done]

\* The operation that acted last, with its arguments and its return value.
Op(name) == [name |-> name, dir |-> "Forward", secs |-> 0, rate |-> 1, key |-> "c1", control |-> [channel |-> "c1", sampler |-> "h1", state |-> Requested, end |-> "Normal", after |-> 0, rate_multiplier |-> 1], replaced |-> FALSE, ret |-> FALSE]

\* ---------------------------------------------------------------- timing
\* amethyst_core::timing::secs_to_duration: Duration::new(secs as u64, ...),
\* truncating, and saturating at zero for negative seconds.
secs_to_duration(secs) == IF secs < 0 THEN 0 ELSE secs \div 2

\* amethyst_core::timing::duration_to_secs.
duration_to_secs(dur) == dur * 2

\* minterpolate::get_input_index on a non-empty input: None when the time
\* precedes input[0], else the greatest index whose time is <= the query
\* (indices from 0, as in the source).
get_input_index(t, inputs) ==
    LET le == {i \in 0..(Len(inputs) - 1) : inputs[i + 1] <= t}
    IN  IF le = {} THEN None ELSE Some(CHOOSE i \in le : \A k \in le : k <= i)

\* ---------------------------------------------------------------- entries
\* abort_control without the filter on Done.
abort_control_all(sampler) == [sampler EXCEPT !.state = Abort]

\* abort, the closure body with its filter: a control that is not Done
\* becomes Abort.
abort_control(sampler) == IF sampler.state # Done THEN [sampler EXCEPT !.state = Abort] ELSE sampler

\* pause_control leaving Done controls alone.
pause_control_live(sampler) == IF sampler.state = Done THEN sampler ELSE [sampler EXCEPT !.state = IF is_running(sampler.state) THEN Paused(sampler.state[2]) ELSE Paused(0)]

\* pause, the loop body: Running(dur) becomes Paused(dur), anything else
\* Paused(0).
pause_control(sampler) == [sampler EXCEPT !.state = IF is_running(sampler.state) THEN Paused(sampler.state[2]) ELSE Paused(0)]

\* unpause_control starting Requested controls too.
unpause_control_start(sampler) == IF is_paused(sampler.state) THEN [sampler EXCEPT !.state = Running(sampler.state[2])] ELSE IF sampler.state = Requested THEN [sampler EXCEPT !.state = Running(0)] ELSE sampler

\* unpause_control restarting at zero instead of resuming.
unpause_control_restart(sampler) == IF is_paused(sampler.state) THEN [sampler EXCEPT !.state = Running(0)] ELSE sampler

\* unpause, the loop body: Paused(dur) becomes Running(dur).
unpause_control(sampler) == IF is_paused(sampler.state) THEN [sampler EXCEPT !.state = Running(sampler.state[2])] ELSE sampler

\* rate_control reaching only the controls that are Running.
rate_control_running(sampler, rate_multiplier) == IF is_running(sampler.state) THEN [sampler EXCEPT !.rate_multiplier = rate_multiplier] ELSE sampler

\* set_rate_multiplier, the closure body.
rate_control(sampler, rate_multiplier) == [sampler EXCEPT !.rate_multiplier = rate_multiplier]

\* input_control seeking Paused controls too.
input_control_paused(sampler, dur) == IF is_running(sampler.state) \/ is_paused(sampler.state) THEN [sampler EXCEPT !.state = Running(dur)] ELSE sampler

\* set_input, the closure body: only a Running control takes the seek.
input_control(sampler, dur) == IF is_running(sampler.state) THEN [sampler EXCEPT !.state = Running(dur)] ELSE sampler

\* can_terminate accepting a Paused control.
can_terminate_paused(t) == t.state = Done \/ t.state = Requested \/ is_paused(t.state)

\* can_terminate accepting every control that is not Running.
can_terminate_idle(t) == ~is_running(t.state)

\* check_termination, the predicate of all().
can_terminate(t) == t.state = Done \/ t.state = Requested

\* new_index whose Forward arm does not advance.
new_index_stay(index, len, direction) ==
    CASE index # None /\ direction = "Forward" /\ index[1] >= len - 1 -> len - 1
      [] index # None /\ direction = "Forward" -> index[1]
      [] index = Some(0) /\ direction = "Backward" -> 0
      [] index # None /\ direction = "Backward" -> index[1] - 1
      [] OTHER -> 0

\* new_index wrapping around at the last keyframe instead of clamping.
new_index_wrap(index, len, direction) ==
    CASE index # None /\ direction = "Forward" /\ index[1] >= len - 1 -> 0
      [] index # None /\ direction = "Forward" -> index[1] + 1
      [] index = Some(0) /\ direction = "Backward" -> len - 1
      [] index # None /\ direction = "Backward" -> index[1] - 1
      [] OTHER -> 0

\* new_index with the two directions exchanged.
new_index_swap(index, len, direction) ==
    CASE index # None /\ direction = "Backward" /\ index[1] >= len - 1 -> len - 1
      [] index # None /\ direction = "Backward" -> index[1] + 1
      [] index = Some(0) /\ direction = "Forward" -> 0
      [] index # None /\ direction = "Forward" -> index[1] - 1
      [] OTHER -> 0

\* The match of set_step_state: the index of the keyframe to step to.
new_index(index, len, direction) ==
    CASE index # None /\ direction = "Forward" /\ index[1] >= len - 1 -> len - 1
      [] index # None /\ direction = "Forward" -> index[1] + 1
      [] index = Some(0) /\ direction = "Backward" -> 0
      [] index # None /\ direction = "Backward" -> index[1] - 1
      [] OTHER -> 0

\* set_step_state adding the keyframe time to the elapsed time instead of
\* replacing it.
set_step_state_add(control, sampler, direction) ==
    IF ~is_running(control.state) THEN [control |-> control, fault |-> FALSE]
    ELSE IF Len(sampler.input) = 0 THEN [control |-> control, fault |-> TRUE]
    ELSE LET dur_s == duration_to_secs(control.state[2])
             idx == new_index(get_input_index(dur_s, sampler.input), Len(sampler.input), direction)
         IN  [control |-> [control EXCEPT !.state = Running(control.state[2] + secs_to_duration(sampler.input[idx + 1]))], fault |-> FALSE]

\* set_step_state stepping Paused controls as well as Running ones.
set_step_state_paused(control, sampler, direction) ==
    IF ~(is_running(control.state) \/ is_paused(control.state)) THEN [control |-> control, fault |-> FALSE]
    ELSE IF Len(sampler.input) = 0 THEN [control |-> control, fault |-> TRUE]
    ELSE LET dur_s == duration_to_secs(control.state[2])
             idx == new_index(get_input_index(dur_s, sampler.input), Len(sampler.input), direction)
         IN  [control |-> [control EXCEPT !.state = Running(secs_to_duration(sampler.input[idx + 1]))], fault |-> FALSE]

\* set_step_state: a Running control moves to the keyframe new_index names.
\* A sampler without keyframes faults (index out of bounds); the fault is
\* reported with the control as it was.
set_step_state(control, sampler, direction) ==
    IF ~is_running(control.state) THEN [control |-> control, fault |-> FALSE]
    ELSE IF Len(sampler.input) = 0 THEN [control |-> control, fault |-> TRUE]
    ELSE LET dur_s == duration_to_secs(control.state[2])
             idx == new_index(get_input_index(dur_s, sampler.input), Len(sampler.input), direction)
         IN  [control |-> [control EXCEPT !.state = Running(secs_to_duration(sampler.input[idx + 1]))], fault |-> FALSE]

\* The iteration of step over values_mut() in the order the map yields
\* them: Done controls are filtered out, the sampler of every other control
\* is unwrapped (a fault when the store does not hold it), then the control
\* is stepped.  A fault ends the iteration; the controls visited before it
\* keep their new state.
RECURSIVE step_from(_, _, _, _, _)
step_from(set, assets, order, i, direction) ==
    IF i > Len(order) THEN [set |-> set, fault |-> FALSE]
    ELSE LET c == set[order[i]]
         IN  IF c.state = Done THEN step_from(set, assets, order, i + 1, direction)
             ELSE IF ~assets[c.sampler].present THEN [set |-> set, fault |-> TRUE]
             ELSE LET r == set_step_state(c, assets[c.sampler], direction)
                  IN  IF r.fault THEN [set |-> set, fault |-> TRUE]
                      ELSE step_from([set EXCEPT ![order[i]] = r.control], assets, order, i + 1, direction)

\* The orders in which a hash map may yield the entries of a key set.
Orders(keys) == {s \in [1..Cardinality(keys) -> keys] : \A i \in 1..Cardinality(keys) : \A j \in 1..Cardinality(keys) : i # j => s[i] # s[j]}

\* ---------------------------------------------------------------- actions
\* The asset store of the full model: sampler h1 is loaded with keyframes at
\* 1, 2, .. MaxKeys half ticks, sampler h2 is not loaded yet.
MainStore == [h \in Handles |-> IF h = "h1" THEN Sampler([i \in 1..MaxKeys |-> i]) ELSE NotLoaded]

Init ==
    /\ samplers = EmptySet
    /\ store = MainStore
    /\ panicked = FALSE
    /\ op = Op("default")
    /\ before = EmptySet

\* set_channel keeping the control a channel already has (first write wins).
set_channel_first(channel, control) ==
    /\ ~panicked
    /\ samplers' = [c \in DOMAIN samplers \cup {channel} |-> IF c \in DOMAIN samplers THEN samplers[c] ELSE control]
    /\ op' = [Op("set_channel") EXCEPT !.key = channel, !.control = control, !.replaced = channel \in DOMAIN samplers]
    /\ before' = EmptySet
    /\ UNCHANGED <<store, panicked>>

\* set_channel storing the control under its own channel field instead of
\* the key it is given.
set_channel_own(channel, control) ==
    /\ ~panicked
    /\ samplers' = [c \in DOMAIN samplers \cup {control.channel} |-> IF c = control.channel THEN control ELSE samplers[c]]
    /\ op' = [Op("set_channel") EXCEPT !.key = channel, !.control = control, !.replaced = channel \in DOMAIN samplers]
    /\ before' = EmptySet
    /\ UNCHANGED <<store, panicked>>

\* set_channel(channel, control): insert or replace.
set_channel(channel, control) ==
    /\ ~panicked
    /\ samplers' = [c \in DOMAIN samplers \cup {channel} |-> IF c = channel THEN control ELSE samplers[c]]
    /\ op' = [Op("set_channel") EXCEPT !.key = channel, !.control = control, !.replaced = channel \in DOMAIN samplers]
    /\ before' = EmptySet
    /\ UNCHANGED <<store, panicked>>

abort ==
    /\ ~panicked
    /\ samplers' = [c \in DOMAIN samplers |-> abort_control(samplers[c])]
    /\ op' = Op("abort")
    /\ before' = samplers
    /\ UNCHANGED <<store, panicked>>

pause ==
    /\ ~panicked
    /\ samplers' = [c \in DOMAIN samplers |-> pause_control(samplers[c])]
    /\ op' = Op("pause")
    /\ before' = samplers
    /\ UNCHANGED <<store, panicked>>

unpause ==
    /\ ~panicked
    /\ samplers' = [c \in DOMAIN samplers |-> unpause_control(samplers[c])]
    /\ op' = Op("unpause")
    /\ before' = samplers
    /\ UNCHANGED <<store, panicked>>

set_rate_multiplier(rate_multiplier) ==
    /\ ~panicked
    /\ samplers' = [c \in DOMAIN samplers |-> rate_control(samplers[c], rate_multiplier)]
    /\ op' = [Op("set_rate_multiplier") EXCEPT !.rate = rate_multiplier]
    /\ before' = samplers
    /\ UNCHANGED <<store, panicked>>

set_input(input) ==
    /\ ~panicked
    /\ samplers' = [c \in DOMAIN samplers |-> input_control(samplers[c], secs_to_duration(input))]
    /\ op' = [Op("set_input") EXCEPT !.secs = input]
    /\ before' = samplers
    /\ UNCHANGED <<store, panicked>>

\* check_termination(&self): the result is recorded in op.ret.
check_termination ==
    /\ ~panicked
    /\ op' = [Op("check_termination") EXCEPT !.ret = \A c \in DOMAIN samplers : can_terminate(samplers[c])]
    /\ before' = samplers
    /\ UNCHANGED <<samplers, store, panicked>>

\* step(samplers, direction), for every order of iteration.
step(direction) ==
    /\ ~panicked
    /\ \E order \in Orders(DOMAIN samplers) :
          LET r == step_from(samplers, store, order, 1, direction)
          IN  /\ samplers' = r.set
              /\ panicked' = r.fault
    /\ op' = [Op("step") EXCEPT !.dir = direction]
    /\ before' = samplers
    /\ UNCHANGED store

Next ==
    \/ (\E channel \in Channels : \E control \in SamplerControl : set_channel(channel, control))
    \/ abort
    \/ pause
    \/ unpause
    \/ (\E r \in Rates : set_rate_multiplier(r))
    \/ (\E s \in Secs : set_input(s))
    \/ check_termination
    \/ (\E d \in StepDirection : step(d))

Spec == Init /\ [][Next]_vars

\* ------------------------------------------------- stepping specification
\* A control set with one control on channel c1 and at most one more on
\* channel c2, over every sampler h1 of at most MaxKeys non-decreasing
\* keyframe times (h2 is not loaded); the set is stepped, sought, paused and
\* unpaused.
\* The second control is Requested or Running(0), with either sampler; the
\* rate multiplier, which stepping does not read, is 1.
Neighbours == {control \in SamplerControl : control.rate_multiplier = 1 /\ control.state \in {Requested, Running(0)}}

InitStep ==
    /\ \E control \in {x \in SamplerControl : x.rate_multiplier = 1} :
          \/ samplers = [c \in {"c1"} |-> control]
          \/ \E other \in Neighbours : samplers = [c \in Channels |-> IF c = "c1" THEN control ELSE other]
    /\ \E input \in KeySeqs : store = [h \in Handles |-> IF h = "h1" THEN Sampler(input) ELSE NotLoaded]
    /\ panicked = FALSE
    /\ op = Op("default")
    /\ before = EmptySet

NextStep ==
    \/ (\E d \in StepDirection : step(d))
    \/ (\E s \in Secs : set_input(s))
    \/ pause
    \/ unpause

StepSpec == InitStep /\ [][NextStep]_vars

\* ---------------------------------------------------------------- claims
\* The operations that act on every control of the set.
BroadcastOps == {"abort", "pause", "unpause", "set_input", "set_rate_multiplier", "step"}

\* The keys of both the set before the last operation and the set after it.
Kept == DOMAIN before \cap DOMAIN samplers

\* The sampler asset of a control, and whether step can read keyframes of it.
InputOf(control) == store[control.sampler].input
HasKeys(control) == store[control.sampler].present /\ Len(InputOf(control)) >= 1

\* C1: a control that is Done stays Done under abort, pause, unpause,
\* set_input, set_rate_multiplier and step.
DoneIsTerminal ==
    op.name \in BroadcastOps =>
        \A c \in DOMAIN before :
            before[c].state = Done => (c \in DOMAIN samplers /\ samplers[c].state = Done)

\* C2: check_termination returns true exactly when no control is Running,
\* Paused or Abort (true for the empty set), and leaves the set as it was.
CheckTerminationIff ==
    op.name = "check_termination" =>
        /\ op.ret <=> ~(\E c \in DOMAIN samplers : samplers[c].state[1] \in {"Running", "Paused", "Abort"})
        /\ samplers = before

\* C2 witness: check_termination returned false on a set whose only active
\* control is Paused, next to a Done one.
CheckTerminationSeen ==
    /\ op.name = "check_termination"
    /\ ~op.ret
    /\ \E c \in DOMAIN samplers : is_paused(samplers[c].state)
    /\ \E c \in DOMAIN samplers : samplers[c].state = Done

\* C3 as claimed: when check_termination returns true every control is Done.
TerminationMeansAllDone ==
    (op.name = "check_termination" /\ op.ret) =>
        \A c \in DOMAIN samplers : samplers[c].state = Done

\* C3 amended: when check_termination returns true every control is Done or
\* still Requested.
TerminationMeansNoneActive ==
    (op.name = "check_termination" /\ op.ret) =>
        \A c \in DOMAIN samplers : samplers[c].state \in {Done, Requested}

\* C3 witness: check_termination returned true with a Requested control.
TerminationWithRequested ==
    /\ op.name = "check_termination"
    /\ op.ret
    /\ \E c \in DOMAIN samplers : samplers[c].state = Requested

\* C4, one step of it: when unpause directly follows pause, every control
\* that was Running(d) before the pause is Running(d) again and every control
\* that was Requested is Running(0).
RoundTripStep ==
    (op.name = "pause" /\ op'.name = "unpause") =>
        \A c \in DOMAIN before :
            /\ c \in DOMAIN samplers'
            /\ is_running(before[c].state) => samplers'[c].state = before[c].state
            /\ before[c].state = Requested => samplers'[c].state = Running(0)

\* C4: the round-trip law of pause and unpause.
PauseUnpauseRoundTrip == [][RoundTripStep]_vars

\* C4 witness: unpause acted on a fully paused set and resumed one control
\* at a positive elapsed time and another at zero.
RoundTripSeen ==
    /\ op.name = "unpause"
    /\ DOMAIN before = Channels
    /\ \A c \in DOMAIN before : is_paused(before[c].state)
    /\ \E c \in Kept : before[c].state = Paused(MaxDur) /\ samplers[c].state = Running(MaxDur)
    /\ \E c \in Kept : before[c].state = Paused(0) /\ samplers[c].state = Running(0)

\* C5: step never faults: it returns, and a control whose sampler is not in
\* the store or has no keyframes is left as it was.
StepNeverFaults ==
    /\ panicked = FALSE
    /\ op.name = "step" => \A c \in Kept : ~HasKeys(before[c]) => samplers[c] = before[c]

\* The keyframe index C6 names: i is the greatest index with input[i] <= d
\* (here -1 when there is none); Forward gives n-1 if i >= n-1 and i+1
\* otherwise, Backward gives 0 if i is 0 or none and i-1 otherwise.
ClaimedIndex(d, input, direction) ==
    LET n == Len(input)
        at == {k \in 0..(n - 1) : input[k + 1] <= duration_to_secs(d)}
        i == IF at = {} THEN 0 - 1 ELSE CHOOSE k \in at : \A m \in at : m <= k
    IN  IF direction = "Forward"
        THEN (IF i >= n - 1 THEN n - 1 ELSE i + 1)
        ELSE (IF i <= 0 THEN 0 ELSE i - 1)

\* C6: a step that returns has moved every Running(d) control whose sampler
\* has keyframes to Running at the keyframe time of the claimed index, as a
\* Duration; so the control is Running at one of the keyframe times.
StepLaw ==
    (op.name = "step" /\ ~panicked) =>
        \A c \in Kept :
            (is_running(before[c].state) /\ HasKeys(before[c])) =>
                /\ samplers[c].state = Running(secs_to_duration(InputOf(before[c])[ClaimedIndex(before[c].state[2], InputOf(before[c]), op.dir) + 1]))
                /\ \E k \in 1..Len(InputOf(before[c])) : samplers[c].state = Running(secs_to_duration(InputOf(before[c])[k]))

\* C6 witness: a Forward step of a set of two controls returned and moved a
\* control to a later keyframe of a sampler with MaxKeys keyframes, from a
\* time at or after its first one.
StepLawSeen ==
    /\ op.name = "step"
    /\ op.dir = "Forward"
    /\ ~panicked
    /\ DOMAIN before = Channels
    /\ \E c \in Kept :
        /\ is_running(before[c].state)
        /\ HasKeys(before[c])
        /\ Len(InputOf(before[c])) = MaxKeys
        /\ duration_to_secs(before[c].state[2]) >= InputOf(before[c])[1]
        /\ is_running(samplers[c].state)
        /\ samplers[c].state[2] > before[c].state[2]

\* C7: a Forward step of a control Running at the last keyframe time and a
\* Backward step of a control Running at the first keyframe time leave the
\* state as it is.
BoundaryIdempotent ==
    op.name = "step" =>
        \A c \in Kept :
            HasKeys(before[c]) =>
                /\ (op.dir = "Forward" /\ before[c].state = Running(secs_to_duration(InputOf(before[c])[Len(InputOf(before[c]))])))
                       => samplers[c].state = before[c].state
                /\ (op.dir = "Backward" /\ before[c].state = Running(secs_to_duration(InputOf(before[c])[1])))
                       => samplers[c].state = before[c].state

\* C7 witness: a Forward step at the last keyframe time of a sampler whose
\* last two keyframe times are equal and later than its first.
BoundarySeen ==
    /\ op.name = "step"
    /\ op.dir = "Forward"
    /\ \E c \in Kept :
        /\ HasKeys(before[c])
        /\ Len(InputOf(before[c])) = MaxKeys
        /\ InputOf(before[c])[MaxKeys] = InputOf(before[c])[MaxKeys - 1]
        /\ secs_to_duration(InputOf(before[c])[1]) < secs_to_duration(InputOf(before[c])[MaxKeys])
        /\ before[c].state = Running(secs_to_duration(InputOf(before[c])[MaxKeys]))
        /\ samplers[c].state = before[c].state

\* C8: set_input(s) moves every Running control to Running(s), s as a
\* Duration, and leaves the state of every other control as it was.
SetInputLaw ==
    op.name = "set_input" =>
        /\ DOMAIN samplers = DOMAIN before
        /\ \A c \in Kept :
            IF is_running(before[c].state)
            THEN samplers[c].state = Running(secs_to_duration(op.secs))
            ELSE samplers[c].state = before[c].state

\* C8 witness: a seek moved a Running control to another time while a
\* Paused control kept its elapsed time.
SetInputSeen ==
    /\ op.name = "set_input"
    /\ \E c \in Kept : is_running(before[c].state) /\ is_running(samplers[c].state) /\ samplers[c].state # before[c].state
    /\ \E c \in Kept : before[c].state = Paused(MaxDur) /\ samplers[c].state = Paused(MaxDur)

\* C9: abort moves every control that is not Done to Abort and leaves Done
\* controls Done; if some control was not Done, check_termination is false
\* afterwards.
AbortLaw ==
    op.name = "abort" =>
        /\ DOMAIN samplers = DOMAIN before
        /\ \A c \in Kept : samplers[c].state = (IF before[c].state = Done THEN Done ELSE Abort)
        /\ (\E c \in Kept : before[c].state # Done) => ~(\A c \in DOMAIN samplers : can_terminate(samplers[c]))

\* C9 witness: abort acted on a set with a Done and a Requested control.
AbortSeen ==
    /\ op.name = "abort"
    /\ \E c \in Kept : before[c].state = Done /\ samplers[c].state = Done
    /\ \E c \in Kept : before[c].state = Requested /\ samplers[c].state = Abort

\* C10: pause moves a Running(d) control to Paused(d) and every other
\* control to Paused(0); no control is Running afterwards.
PauseLaw ==
    op.name = "pause" =>
        /\ DOMAIN samplers = DOMAIN before
        /\ \A c \in Kept : samplers[c].state = (IF is_running(before[c].state) THEN Paused(before[c].state[2]) ELSE Paused(0))
        /\ \A c \in DOMAIN samplers : ~is_running(samplers[c].state)

\* C10 witness: pause acted on a set with a Running(MaxDur) control and an
\* Abort control.
PauseSeen ==
    /\ op.name = "pause"
    /\ \E c \in Kept : before[c].state = Running(MaxDur) /\ samplers[c].state = Paused(MaxDur)
    /\ \E c \in Kept : before[c].state = Abort /\ samplers[c].state = Paused(0)

\* C11: unpause moves every Paused(d) control to Running(d) and leaves every
\* other control, a Requested one included, as it was.
UnpauseLaw ==
    op.name = "unpause" =>
        /\ DOMAIN samplers = DOMAIN before
        /\ \A c \in Kept :
            IF is_paused(before[c].state)
            THEN samplers[c].state = Running(before[c].state[2])
            ELSE samplers[c] = before[c]

\* C11 witness: unpause resumed a Paused(MaxDur) control and left a
\* Requested control Requested.
UnpauseSeen ==
    /\ op.name = "unpause"
    /\ \E c \in Kept : before[c].state = Paused(MaxDur) /\ samplers[c].state = Running(MaxDur)
    /\ \E c \in Kept : before[c].state = Requested /\ samplers[c].state = Requested

\* All controls of a set have the same rate multiplier.
SameRate(set) == \A c \in DOMAIN set : \A e \in DOMAIN set : set[c].rate_multiplier = set[e].rate_multiplier

\* C12 as claimed, for the operation that directly follows
\* set_rate_multiplier: the controls still share one rate multiplier.
RateStaysShared == [][op.name = "set_rate_multiplier" => SameRate(samplers')]_vars

\* C12 amended: after set_rate_multiplier(r) every control has rate r, and
\* abort, pause, unpause, set_input, step and check_termination leave the rate
\* of every control as it was (set_channel stores the rate of its control).
RateLaw ==
    /\ op.name = "set_rate_multiplier" =>
        /\ DOMAIN samplers = DOMAIN before
        /\ \A c \in DOMAIN samplers : samplers[c].rate_multiplier = op.rate
    /\ op.name \in {"abort", "pause", "unpause", "set_input", "step", "check_termination"} =>
        /\ DOMAIN samplers = DOMAIN before
        /\ \A c \in Kept : samplers[c].rate_multiplier = before[c].rate_multiplier

\* C12 witness: set_rate_multiplier gave one rate to two controls that had
\* different rates, one of them not Running.
RateSeen ==
    /\ op.name = "set_rate_multiplier"
    /\ DOMAIN before = Channels
    /\ ~SameRate(before)
    /\ \E c \in Kept : ~is_running(before[c].state) /\ before[c].rate_multiplier # op.rate
    /\ SameRate(samplers)

\* The slack of one step of a sampler: the largest distance, as a Duration,
\* between two adjacent keyframes (zero for a single keyframe).
Slack(input) ==
    LET gaps == {secs_to_duration(input[k + 1]) - secs_to_duration(input[k]) : k \in 1..(Len(input) - 1)}
    IN  IF gaps = {} THEN 0 ELSE CHOOSE g \in gaps : \A h \in gaps : h <= g

\* The elapsed time of a Running or Paused control whose sampler has
\* keyframes is not negative and at most the final keyframe time plus the
\* slack of one step.
Within(control) ==
    ((is_running(control.state) \/ is_paused(control.state)) /\ HasKeys(control)) =>
        /\ control.state[2] >= 0
        /\ control.state[2] <= secs_to_duration(InputOf(control)[Len(InputOf(control))]) + Slack(InputOf(control))

\* C13 as claimed: pause, unpause, set_input and step keep the elapsed time
\* of every control within the bound.
ElapsedBound ==
    op.name \in {"pause", "unpause", "set_input", "step"} =>
        \A c \in Kept : Within(before[c]) => Within(samplers[c])

\* C13 amended: elapsed times are never negative; pause, unpause and step
\* keep every control within the bound, and so does set_input(s) when s is
\* not later than the final keyframe time of the control's sampler.
ElapsedLaw ==
    /\ \A c \in DOMAIN samplers : (is_running(samplers[c].state) \/ is_paused(samplers[c].state)) => samplers[c].state[2] >= 0
    /\ op.name \in {"pause", "unpause", "step"} =>
        \A c \in Kept : Within(before[c]) => Within(samplers[c])
    /\ op.name = "set_input" =>
        \A c \in Kept : (Within(before[c]) /\ HasKeys(before[c]) /\ op.secs <= InputOf(before[c])[Len(InputOf(before[c]))]) => Within(samplers[c])

\* C13 witness: a seek to a negative time left a Running control at zero,
\* within the bound of its sampler.
ElapsedSeen ==
    /\ op.name = "set_input"
    /\ op.secs < 0
    /\ \E c \in Kept : is_running(before[c].state) /\ before[c].state[2] > 0 /\ HasKeys(before[c]) /\ Within(before[c]) /\ samplers[c].state = Running(0)

\* C14, one step of it: after set_channel(c, x) channel c has the control x,
\* the set has the channels it had and c, and the control of every other
\* channel is as it was.
SetChannelStep ==
    op'.name = "set_channel" =>
        /\ DOMAIN samplers' = DOMAIN samplers \cup {op'.key}
        /\ samplers'[op'.key] = op'.control
        /\ \A c \in DOMAIN samplers \ {op'.key} : samplers'[c] = samplers[c]

\* C14: set_channel is last-write-wins and touches one channel only; the set
\* maps each channel to at most one control.
LastWriteWins == [][SetChannelStep]_vars

\* C14 witness: set_channel replaced the control of a channel by a Requested
\* control of another rate next to the control of the other channel.
LastWriteSeen ==
    /\ op.name = "set_channel"
    /\ op.replaced
    /\ DOMAIN samplers = Channels
    /\ op.control.state = Requested
    /\ samplers[op.key] = op.control
    /\ \E c \in DOMAIN samplers : samplers[c].rate_multiplier # op.control.rate_multiplier

\* C15: a control that is Abort stays Abort under abort, pause, unpause,
\* set_input, set_rate_multiplier and step.
AbortIsKept ==
    op.name \in BroadcastOps =>
        \A c \in DOMAIN before :
            before[c].state = Abort => (c \in DOMAIN samplers /\ samplers[c].state = Abort)

\* The broadcast commands C16 names.
Commands == {"abort", "pause", "unpause", "set_input", "set_rate_multiplier"}

\* C16, one step of it: when a command directly follows the same command
\* with the same argument, the set stays as the first one left it.
SecondIsNoOp ==
    (op.name \in Commands /\ op' = op) => samplers' = samplers

\* C16: abort, pause, unpause, set_input(s) and set_rate_multiplier(r) are
\* idempotent.
CommandsIdempotent == [][SecondIsNoOp]_vars

\* C17 as claimed: a Forward step leaves no Running(d) control at an earlier
\* time than d and a Backward step none at a later time, whatever d is.
StepKeepsDirection ==
    op.name = "step" =>
        \A c \in Kept :
            (is_running(before[c].state) /\ HasKeys(before[c]) /\ is_running(samplers[c].state)) =>
                /\ op.dir = "Forward" => samplers[c].state[2] >= before[c].state[2]
                /\ op.dir = "Backward" => samplers[c].state[2] <= before[c].state[2]

\* C17 amended: a Forward step leaves no Running(d) control at an earlier
\* time when d is not after the last keyframe time, and a Backward step none
\* at a later time when d is not before the first keyframe time.
StepDirectionLaw ==
    op.name = "step" =>
        \A c \in Kept :
            (is_running(before[c].state) /\ HasKeys(before[c])) =>
                /\ is_running(samplers[c].state)
                /\ (op.dir = "Forward" /\ duration_to_secs(before[c].state[2]) <= InputOf(before[c])[Len(InputOf(before[c]))])
                       => samplers[c].state[2] >= before[c].state[2]
                /\ (op.dir = "Backward" /\ duration_to_secs(before[c].state[2]) >= InputOf(before[c])[1])
                       => samplers[c].state[2] <= before[c].state[2]

\* C17 witness: a Backward step moved a control from a time between the
\* first and the last keyframe time of its sampler to an earlier time.
StepDirectionSeen ==
    /\ op.name = "step"
    /\ op.dir = "Backward"
    /\ \E c \in Kept :
        /\ is_running(before[c].state)
        /\ HasKeys(before[c])
        /\ duration_to_secs(before[c].state[2]) >= InputOf(before[c])[1]
        /\ duration_to_secs(before[c].state[2]) <= InputOf(before[c])[Len(InputOf(before[c]))]
        /\ is_running(samplers[c].state)
        /\ samplers[c].state[2] < before[c].state[2]

\* C18 as claimed: every control is stored under the key equal to its
\* channel field.
KeyIsChannel == \A c \in DOMAIN samplers : samplers[c].channel = c

\* C18 amended, one step of it: set_channel(c, x) stores x, with the channel
\* field it has, under c; any other operation keeps the keys and the channel
\* field of every control; so a set whose keys equal the channel fields stays
\* so unless set_channel(c, x) is called with a control x of another channel.
KeyStep ==
    /\ op'.name = "set_channel" =>
        /\ op'.key \in DOMAIN samplers'
        /\ samplers'[op'.key].channel = op'.control.channel
    /\ op'.name # "set_channel" =>
        /\ DOMAIN samplers' = DOMAIN samplers
        /\ \A c \in DOMAIN samplers : samplers'[c].channel = samplers[c].channel
    /\ ((\A c \in DOMAIN samplers : samplers[c].channel = c) /\ (op'.name = "set_channel" => op'.control.channel = op'.key))
           => (\A c \in DOMAIN samplers' : samplers'[c].channel = c)

\* C18 amended.
KeyLaw == [][KeyStep]_vars

\* C18 witness: set_channel stored a control of channel c2 under the key c1.
KeySeen ==
    /\ op.name = "set_channel"
    /\ op.key = "c1"
    /\ op.control.channel = "c2"
    /\ samplers[op.key].channel = "c2"

\* A control equals another but for its state, and but for its rate.
SameButState(x, y) == [x EXCEPT !.state = y.state] = y
SameButRate(x, y) == [x EXCEPT !.rate_multiplier = y.rate_multiplier] = y

\* C19: abort, pause, unpause, set_input and step keep the channels of the
\* set and every field of a control but its state; set_rate_multiplier keeps
\* the channels and every field but the rate multiplier; step leaves every
\* control that is not Running as it was.
FrameLaw ==
    /\ op.name \in {"abort", "pause", "unpause", "set_input", "step"} =>
        /\ DOMAIN samplers = DOMAIN before
        /\ \A c \in Kept : SameButState(samplers[c], before[c])
    /\ op.name = "set_rate_multiplier" =>
        /\ DOMAIN samplers = DOMAIN before
        /\ \A c \in Kept : SameButRate(samplers[c], before[c])
    /\ op.name = "step" =>
        \A c \in Kept : ~is_running(before[c].state) => samplers[c] = before[c]

\* C19 witness: a step moved a Running control and left a Paused(MaxDur)
\* control of another rate as it was.
FrameSeen ==
    /\ op.name = "step"
    /\ ~panicked
    /\ \E c \in Kept : is_running(before[c].state) /\ samplers[c].state # before[c].state /\ SameButState(samplers[c], before[c])
    /\ \E c \in Kept : \E e \in Kept :
        /\ before[c].state = Paused(MaxDur)
        /\ samplers[c] = before[c]
        /\ is_running(before[e].state)
        /\ before[c].rate_multiplier # before[e].rate_multiplier

====
